---------------------------- MODULE Spec2Model ----------------------------
(***************************************************************************)
(* Wishlist reconciliation core of BackLoggdSteamPlugin: name              *)
(* normalisation, fuzzy similarity, exclusion filtering and the            *)
(* CompareWishlists use case.                                              *)
(*                                                                         *)
(* A string is a sequence of one-character strings.  A threshold is an     *)
(* integer number of hundredths (20 stands for 0.2): for the thresholds    *)
(* and lengths used here  d <= maxLength * t  in IEEE doubles agrees with  *)
(* d * 100 <= maxLength * (100 t)  in integers.                            *)
(***************************************************************************)
EXTENDS Integers, Sequences, FiniteSets, TLC

VARIABLES
  rawA, rawB,      \* the raw names handed to the GameName operations
  thr,             \* the threshold handed to isSimilarTo, in hundredths
  nameOut, namePc, \* results and position of the GameName operations
  useCase,         \* the CompareWishlistsUseCase object of a direct call
  first, second,   \* the two WishlistCollections handed to the use case
  fuzzy,           \* fuzzyMatchThreshold of the call: <<>> (absent) or <<t>>
  entries,         \* the ExcludedGame list of the exclusion file
  exIds, exNames,  \* excludedAppIds and excludedNames of a direct execute call
  ucOut, ucPc,     \* results and position of the use case operations
  heap,            \* the WishlistCollection objects created so far; a
                   \* reference to an object is its index
  call,            \* the last WishlistCollection method call and its result
  ncalls,          \* the number of method calls made
  excl,            \* the ExcludedGameCollection objects created so far; a
                   \* reference to an object is its index
  ops,             \* the calls of the exclusion repository, in the order of
                   \* their start: arguments, position, locals and result
  saves            \* the calls that wrote the exclusion file, in the order
                   \* of their writes

nameVars == <<rawA, rawB, nameOut, namePc>>

collVars == <<heap, call, ncalls>>

repoVars == <<excl, ops, saves>>

ucVars == <<useCase, first, second, fuzzy, entries, exIds, exNames, ucOut, ucPc>>

vars == <<rawA, rawB, thr, nameOut, namePc,
          useCase, first, second, fuzzy, entries, exIds, exNames, ucOut, ucPc,
          heap, call, ncalls, excl, ops, saves>>

(***************************************************************************)
(* Characters                                                              *)
(***************************************************************************)
LowerSeq ==
  <<"a","b","c","d","e","f","g","h","i","j","k","l","m",
    "n","o","p","q","r","s","t","u","v","w","x","y","z">>

UpperSeq ==
  <<"A","B","C","D","E","F","G","H","I","J","K","L","M",
    "N","O","P","Q","R","S","T","U","V","W","X","Y","Z">>

DigitSeq == <<"0","1","2","3","4","5","6","7","8","9">>

LowerLetters == {LowerSeq[i] : i \in 1..Len(LowerSeq)}

UpperLetters == {UpperSeq[i] : i \in 1..Len(UpperSeq)}

Digits == {DigitSeq[i] : i \in 1..Len(DigitSeq)}

\* U+0301 COMBINING ACUTE ACCENT and U+00E9 LATIN SMALL LETTER E WITH ACUTE
CombiningAcute == "U+0301"

EAcute == "U+00E9"

\* the characters String.prototype.trim removes, among those modelled
WhiteSpace == {" ", "\t"}

\* \w of a JavaScript regular expression
WordChars == LowerLetters \cup UpperLetters \cup Digits \cup {"_"}

IsWordChar(c) == c \in WordChars

Max(x, y) == IF x >= y THEN x ELSE y

Min(x, y) == IF x <= y THEN x ELSE y

(***************************************************************************)
(* String primitives of the JavaScript runtime used by the code            *)
(***************************************************************************)
LowerOf == [c \in UpperLetters |-> LowerSeq[CHOOSE i \in 1..Len(UpperSeq) : UpperSeq[i] = c]]

ToLowerChar(c) == IF c \in UpperLetters THEN LowerOf[c] ELSE c

ToLowerCase(s) == [i \in 1..Len(s) |-> ToLowerChar(s[i])]

\* canonical composition: a base letter followed by a combining mark becomes
\* the precomposed character
RECURSIVE NFC(_)
NFC(s) ==
  IF Len(s) < 2 THEN s
  ELSE IF s[1] = "e" /\ s[2] = CombiningAcute
    THEN <<EAcute>> \o NFC(SubSeq(s, 3, Len(s)))
    ELSE <<s[1]>> \o NFC(Tail(s))

RECURSIVE TrimStart(_)
TrimStart(s) ==
  IF s = <<>> THEN s
  ELSE IF s[1] \in WhiteSpace THEN TrimStart(Tail(s)) ELSE s

RECURSIVE TrimEnd(_)
TrimEnd(s) ==
  IF s = <<>> THEN s
  ELSE IF s[Len(s)] \in WhiteSpace THEN TrimEnd(SubSeq(s, 1, Len(s) - 1)) ELSE s

Trim(s) == TrimEnd(TrimStart(s))

\* \b between position k and position k + 1 of s (k = 0: before the first
\* character, k = Len(s): after the last)
WordBoundary(s, k) ==
  LET before == k >= 1 /\ IsWordChar(s[k])
      after  == k + 1 <= Len(s) /\ IsWordChar(s[k + 1])
  IN  before # after

\* the pattern /\bw\b/ matches s at position i
WordMatchAt(s, w, i) ==
  /\ i + Len(w) - 1 <= Len(s)
  /\ SubSeq(s, i, i + Len(w) - 1) = w
  /\ WordBoundary(s, i - 1)
  /\ WordBoundary(s, i + Len(w) - 1)

\* s.replace(/\bw\b/g, r): leftmost matches, not overlapping
RECURSIVE ReplaceWordFrom(_, _, _, _)
ReplaceWordFrom(s, w, r, i) ==
  IF i > Len(s) THEN <<>>
  ELSE IF WordMatchAt(s, w, i)
    THEN r \o ReplaceWordFrom(s, w, r, i + Len(w))
    ELSE <<s[i]>> \o ReplaceWordFrom(s, w, r, i + 1)

ReplaceWord(s, w, r) == ReplaceWordFrom(s, w, r, 1)

\* s.replace(/^number\b/, '#')
WordNumber == <<"n","u","m","b","e","r">>

ReplaceLeadingNumber(s) ==
  IF /\ Len(s) >= Len(WordNumber)
     /\ SubSeq(s, 1, Len(WordNumber)) = WordNumber
     /\ WordBoundary(s, Len(WordNumber))
    THEN <<"#">> \o SubSeq(s, Len(WordNumber) + 1, Len(s))
    ELSE s

\* s.replace(/[^a-z0-9 ]/g, '')
KeptChars == LowerLetters \cup Digits \cup {" "}

IsKept(c) == c \in KeptChars

StripSpecial(s) == SelectSeq(s, IsKept)

WordAnd == <<"a","n","d">>

WordVi == <<"v","i">>

WordOnline == <<"o","n","l","i","n","e">>

WordEdition == <<"e","d","i","t","i","o","n">>

WordRemastered == <<"r","e","m","a","s","t","e","r","e","d">>

WordDefinitive == <<"d","e","f","i","n","i","t","i","v","e">>

WordGoty == <<"g","a","m","e"," ","o","f"," ","t","h","e"," ","y","e","a","r">>

(***************************************************************************)
(* GameName (Game.ts)                                                      *)
(***************************************************************************)
\* the whole-word replacements of GameName.normalize, in the order of the code
WordReplacements ==
  << [word |-> WordAnd,        by |-> <<"&">>],
     [word |-> WordVi,         by |-> <<"6">>],
     [word |-> WordOnline,     by |-> <<>>],
     [word |-> WordEdition,    by |-> <<>>],
     [word |-> WordRemastered, by |-> <<>>],
     [word |-> WordDefinitive, by |-> <<>>],
     [word |-> WordGoty,       by |-> <<>>] >>

\* the chain of .replace(/\bword\b/g, by) calls from the k-th on
RECURSIVE ReplaceWords(_, _)
ReplaceWords(s, k) ==
  IF k > Len(WordReplacements) THEN s
  ELSE ReplaceWords(ReplaceWord(s, WordReplacements[k].word, WordReplacements[k].by), k + 1)

\* GameName.normalize
Normalize(name) ==
  LET s1 == ToLowerCase(name)
      s2 == NFC(s1)
      s3 == ReplaceLeadingNumber(s2)
      s4 == StripSpecial(s3)
      s5 == ReplaceWords(s4, 1)
  IN  Trim(s5)

\* the titles of the games and exclusion entries of the use case model
TitleDota2 == <<"D","o","t","a"," ","2">>

TitleDota2Shout == <<"D","O","T","A"," ","2","!">>

TitleDota2Joined == <<"D","o","t","a","2">>

TitleLimbo == <<"L","i","m","b","o">>

\* the titles of the use case tests
TitleCounterStrike == <<"C","o","u","n","t","e","r","-","S","t","r","i","k","e">>

TitleCounterStrikeSpaced == <<"C","o","u","n","t","e","r"," ","S","t","r","i","k","e">>

TitleCsGo == <<"C","S",":","G","O">>

Titles ==
  {TitleDota2, TitleDota2Shout, TitleDota2Joined, TitleLimbo,
   TitleCounterStrike, TitleCounterStrikeSpaced, TitleCsGo}

\* the normalized values of the titles, computed once
RECURSIVE NormalizeAll(_)
NormalizeAll(S) ==
  IF S = {} THEN <<>>
  ELSE LET t == CHOOSE x \in S : TRUE
       IN  (t :> Normalize(t)) @@ NormalizeAll(S \ {t})

NormalizedTitles == NormalizeAll(Titles)

\* new GameName(name).normalizedValue
NormalizedValue(name) ==
  IF name \in Titles THEN NormalizedTitles[name] ELSE Normalize(name)

\* one row of the Wagner-Fischer table: prev is the row of the previous
\* character of a (entries for 0..Len(b) at indices 1..Len(b)+1), acc the
\* part of the new row already computed
RECURSIVE LevRow(_, _, _, _)
LevRow(prev, ch, b, acc) ==
  LET j == Len(acc)
  IN  IF j > Len(b) THEN acc
      ELSE LET cost == IF b[j] = ch THEN 0 ELSE 1
               cell == Min(Min(prev[j + 1] + 1, acc[j] + 1), prev[j] + cost)
           IN  LevRow(prev, ch, b, Append(acc, cell))

RECURSIVE LevRows(_, _, _, _)
LevRows(a, b, i, prev) ==
  IF i > Len(a) THEN prev[Len(b) + 1]
  ELSE LevRows(a, b, i + 1, LevRow(prev, a[i], b, <<prev[1] + 1>>))

\* levenshtein.get(a, b) of fast-levenshtein
Levenshtein(a, b) == LevRows(a, b, 1, [j \in 1..(Len(b) + 1) |-> j - 1])

\* the distances between the normalized titles, computed once
NormalizedTitleSet == {NormalizedTitles[t] : t \in Titles}

RECURSIVE DistancesOf(_)
DistancesOf(P) ==
  IF P = {} THEN <<>>
  ELSE LET p == CHOOSE x \in P : TRUE
       IN  (p :> Levenshtein(p[1], p[2])) @@ DistancesOf(P \ {p})

TitleDistances == DistancesOf(NormalizedTitleSet \X NormalizedTitleSet)

\* levenshtein.get(a, b), looked up for the titles
EditDistance(a, b) ==
  IF a \in NormalizedTitleSet /\ b \in NormalizedTitleSet
    THEN TitleDistances[<<a, b>>]
    ELSE Levenshtein(a, b)

IsSimilarToOwnLength(thisNorm, otherNorm, threshold) ==
  EditDistance(thisNorm, otherNorm) * 100 <= Len(thisNorm) * threshold

IsSimilarToStrictly(thisNorm, otherNorm, threshold) ==
  LET distance  == EditDistance(thisNorm, otherNorm)
      maxLength == Max(Len(thisNorm), Len(otherNorm))
  IN  distance * 100 < maxLength * threshold

IsSimilarToBeyondLimit(thisNorm, otherNorm, threshold) ==
  LET distance  == EditDistance(thisNorm, otherNorm)
      maxLength == Max(Len(thisNorm), Len(otherNorm))
  IN  distance * 100 >= maxLength * threshold

\* GameName.isSimilarTo on the normalized values of this and other
IsSimilarTo(thisNorm, otherNorm, threshold) ==
  LET distance  == EditDistance(thisNorm, otherNorm)
      maxLength == Max(Len(thisNorm), Len(otherNorm))
  IN  distance * 100 <= maxLength * threshold

\* new GameName(a).isSimilarTo(new GameName(b), threshold)
NamesSimilar(a, b, threshold) ==
  IsSimilarTo(NormalizedValue(a), NormalizedValue(b), threshold)

(***************************************************************************)
(* Game and WishlistCollection (Game.ts, Wishlist.ts)                      *)
(***************************************************************************)
\* a Game is [appId, name]; appId 0 is a game without Steam id
\* (GameFactory.createFromBackloggd).  An ExcludedGame is [gameName, appId];
\* its appId null is written NoId: every place that reads it tests it for
\* truthiness or for > 0, which null and 0 answer alike.
NoId == 0

\* the elements of an array
SeqToSet(q) == {q[i] : i \in 1..Len(q)}

\* new WishlistCollection(games, platform, userId)
WishlistCollection(games, platform, userId) ==
  [games |-> games, platform |-> platform, userId |-> userId]

\* WishlistCollection.filter; the predicate is a function from the games of
\* the collection to BOOLEAN
CollectionFilter(w, predicate) ==
  LET Holds(game) == predicate[game]
  IN  WishlistCollection(SelectSeq(w.games, Holds), w.platform, w.userId)

(***************************************************************************)
(* The methods of WishlistCollection on objects: h is the heap, this and   *)
(* other are references into it; a method returns the heap after the call  *)
(* and the reference it returns                                            *)
(***************************************************************************)
\* new WishlistCollection(...): a new object at the end of the heap
Alloc(h, obj) == [heap |-> Append(h, obj), ret |-> Len(h) + 1]

FindByNameCaseSensitive(c, name) ==
  LET Same(g) == g.name = name
  IN  SelectSeq(c.games, Same)

\* WishlistCollection.findByName
FindByName(c, name) ==
  LET Same(g) == ToLowerCase(g.name) = ToLowerCase(name)
  IN  SelectSeq(c.games, Same)

\* WishlistCollection.contains
Contains(c, game) == \E i \in 1..Len(c.games) : c.games[i].appId = game.appId

\* WishlistCollection.containsAppId
ContainsAppId(c, appId) == \E i \in 1..Len(c.games) : c.games[i].appId = appId

AddAlwaysNew(h, this, game) ==
  IF Contains(h[this], game)
    THEN Alloc(h, WishlistCollection(h[this].games, h[this].platform, h[this].userId))
    ELSE Alloc(h, WishlistCollection(Append(h[this].games, game),
                                     h[this].platform, h[this].userId))

\* WishlistCollection.add
Add(h, this, game) ==
  IF Contains(h[this], game)
    THEN [heap |-> h, ret |-> this]
    ELSE Alloc(h, WishlistCollection(Append(h[this].games, game),
                                     h[this].platform, h[this].userId))

\* WishlistCollection.remove
Remove(h, this, game) ==
  LET Other(g) == g.appId # game.appId
  IN  Alloc(h, WishlistCollection(SelectSeq(h[this].games, Other),
                                  h[this].platform, h[this].userId))

\* WishlistCollection.filter
Filter(h, this, predicate) == Alloc(h, CollectionFilter(h[this], predicate))

\* the games merge pushes: those of other whose appId this does not contain
MergedGames(h, this, other) ==
  LET Absent(g) == ~ContainsAppId(h[this], g.appId)
  IN  h[this].games \o SelectSeq(h[other].games, Absent)

MergeInPlace(h, this, other) ==
  LET mergedGames == MergedGames(h, this, other)
      pushed == [h EXCEPT ![this].games = mergedGames]
  IN  Alloc(pushed, WishlistCollection(mergedGames, h[this].platform, h[this].userId))

\* WishlistCollection.merge
Merge(h, this, other) ==
  Alloc(h, WishlistCollection(MergedGames(h, this, other),
                              h[this].platform, h[this].userId))

DifferenceOfOther(h, this, other) ==
  Filter(h, other, [g \in SeqToSet(h[other].games) |-> ~ContainsAppId(h[this], g.appId)])

\* WishlistCollection.difference
Difference(h, this, other) ==
  Filter(h, this, [g \in SeqToSet(h[this].games) |-> ~ContainsAppId(h[other], g.appId)])

\* WishlistCollection.intersection
Intersection(h, this, other) ==
  Filter(h, this, [g \in SeqToSet(h[this].games) |-> ContainsAppId(h[other], g.appId)])

(***************************************************************************)
(* ExcludedGameCollection (ExcludedGame.ts): the Map is a sequence of      *)
(* [key, value] records in insertion order                                 *)
(***************************************************************************)
\* String(n) for a positive integer
RECURSIVE DecString(_)
DecString(n) ==
  IF n < 10 THEN <<DigitSeq[n + 1]>>
  ELSE DecString(n \div 10) \o <<DigitSeq[(n % 10) + 1]>>

MapHas(m, k) == \E i \in 1..Len(m) : m[i].key = k

MapSet(m, k, v) ==
  IF MapHas(m, k)
    THEN [i \in 1..Len(m) |-> IF m[i].key = k THEN [key |-> k, value |-> v] ELSE m[i]]
    ELSE Append(m, [key |-> k, value |-> v])

MapValues(m) == [i \in 1..Len(m) |-> m[i].value]

\* ExcludedGameCollection.getKey
GetKey(gameName, appId) ==
  LET normalizedName == Trim(ToLowerCase(gameName))
  IN  IF appId # NoId
        THEN normalizedName \o <<":">> \o DecString(appId)
        ELSE normalizedName

\* new ExcludedGameCollection(games)
RECURSIVE CollectionFrom(_, _)
CollectionFrom(games, m) ==
  IF games = <<>> THEN m
  ELSE CollectionFrom(Tail(games),
                      MapSet(m, GetKey(Head(games).gameName, Head(games).appId),
                             Head(games)))

ExcludedGameCollection(games) == CollectionFrom(games, <<>>)

IsExcludedByIdOnly(coll, gameName, appId) ==
  appId # NoId /\ \E i \in 1..Len(coll) : coll[i].value.appId = appId

\* ExcludedGameCollection.isExcluded
IsExcluded(coll, gameName, appId) ==
  \/ MapHas(coll, GetKey(gameName, appId))
  \/ MapHas(coll, GetKey(gameName, NoId))
  \/ /\ appId # NoId
     /\ \E i \in 1..Len(coll) : coll[i].value.appId = appId

FilterGamesByIdOnly(coll, games) ==
  LET Kept(g) == ~IsExcludedByIdOnly(coll, g.name, g.appId)
  IN  SelectSeq(games, Kept)

\* ExcludedGameCollection.filterGames
FilterGames(coll, games) ==
  LET Kept(g) == ~IsExcluded(coll, g.name, g.appId)
  IN  SelectSeq(games, Kept)

\* ExcludedGameCollection.getAll
GetAll(coll) == MapValues(coll)

\* Map.delete
MapDelete(m, k) ==
  LET Other(e) == e.key # k
  IN  SelectSeq(m, Other)

\* ExcludedGameCollection.add on objects: h is the heap of collections, this
\* a reference into it; the heap after the call and the reference returned
ExcludedAdd(h, this, gameName, appId) ==
  LET key == GetKey(gameName, appId)
      newGame == [gameName |-> Trim(gameName), appId |-> appId]
  IN  IF MapHas(h[this], key)
        THEN [heap |-> h, ret |-> this]
        ELSE Alloc(h, ExcludedGameCollection(MapValues(MapSet(h[this], key, newGame))))

\* ExcludedGameCollection.remove on objects
ExcludedRemove(h, this, gameName, appId) ==
  LET key == GetKey(gameName, appId)
  IN  IF ~MapHas(h[this], key)
        THEN [heap |-> h, ret |-> this]
        ELSE Alloc(h, ExcludedGameCollection(MapValues(MapDelete(h[this], key))))

(***************************************************************************)
(* CompareWishlistsUseCase (CompareWishlists.ts)                           *)
(***************************************************************************)

\* the predicate of filterExcluded: the game is dropped
DroppedByFilter(game, excludedAppIds, excludedNames) ==
  LET normalizedExcludedNames == {NormalizedValue(excludedNames[i]) : i \in 1..Len(excludedNames)}
  IN  \/ game.appId # 0 /\ game.appId > 0 /\ game.appId \in SeqToSet(excludedAppIds)
      \/ NormalizedValue(game.name) \in normalizedExcludedNames

\* CompareWishlistsUseCase.filterExcluded
FilterExcluded(wishlist, excludedAppIds, excludedNames) ==
  IF Len(excludedAppIds) = 0 /\ Len(excludedNames) = 0
    THEN wishlist
    ELSE CollectionFilter(wishlist,
           [game \in SeqToSet(wishlist.games) |->
              ~DroppedByFilter(game, excludedAppIds, excludedNames)])

\* the inner loop of compareWishlists: the index in secondItems of the first
\* game similar to firstGame, 0 when the loop ends without a match
RECURSIVE FindMatchFrom(_, _, _, _)
FindMatchFrom(firstGame, secondItems, threshold, j) ==
  IF j > Len(secondItems) THEN 0
  ELSE IF NamesSimilar(firstGame.name, secondItems[j].name, threshold) THEN j
  ELSE FindMatchFrom(firstGame, secondItems, threshold, j + 1)

FindMatch(firstGame, secondItems, threshold) ==
  FindMatchFrom(firstGame, secondItems, threshold, 1)

\* the outer loop of compareWishlists: for every first game the index of its
\* match
RECURSIVE MatchIndexes(_, _, _)
MatchIndexes(firstItems, secondItems, threshold) ==
  IF firstItems = <<>> THEN <<>>
  ELSE <<FindMatch(Head(firstItems), secondItems, threshold)>>
         \o MatchIndexes(Tail(firstItems), secondItems, threshold)

ComparedListsKeyedByAppId(firstItems, secondItems, matchIndex) ==
  LET firstIdx == [i \in 1..Len(firstItems) |-> i]
      Matched(i)   == matchIndex[i] # 0
      Unmatched(i) == matchIndex[i] = 0
      inBothIdx      == SelectSeq(firstIdx, Matched)
      onlyInFirstIdx == SelectSeq(firstIdx, Unmatched)
      matchedSecondIds ==
        {secondItems[matchIndex[inBothIdx[k]]].appId : k \in 1..Len(inBothIdx)}
      NotMatched(game) == game.appId \notin matchedSecondIds
  IN  [inBoth       |-> [k \in 1..Len(inBothIdx) |-> firstItems[inBothIdx[k]]],
       onlyInFirst  |-> [k \in 1..Len(onlyInFirstIdx) |-> firstItems[onlyInFirstIdx[k]]],
       onlyInSecond |-> SelectSeq(secondItems, NotMatched),
       matchIndex   |-> matchIndex]

ComparedListsPushingEveryGame(firstItems, secondItems, matchIndex) ==
  LET firstIdx == [i \in 1..Len(firstItems) |-> i]
      Matched(i) == matchIndex[i] # 0
      inBothIdx == SelectSeq(firstIdx, Matched)
      matchedSecondNames ==
        {NormalizedValue(secondItems[matchIndex[inBothIdx[k]]].name) : k \in 1..Len(inBothIdx)}
      NotMatched(game) == NormalizedValue(game.name) \notin matchedSecondNames
  IN  [inBoth       |-> [k \in 1..Len(inBothIdx) |-> firstItems[inBothIdx[k]]],
       onlyInFirst  |-> firstItems,
       onlyInSecond |-> SelectSeq(secondItems, NotMatched),
       matchIndex   |-> matchIndex]

\* the lists compareWishlists builds, given the match of every first game
ComparedLists(firstItems, secondItems, matchIndex) ==
  LET firstIdx == [i \in 1..Len(firstItems) |-> i]
      Matched(i)   == matchIndex[i] # 0
      Unmatched(i) == matchIndex[i] = 0
      inBothIdx      == SelectSeq(firstIdx, Matched)
      onlyInFirstIdx == SelectSeq(firstIdx, Unmatched)
      matchedSecondNames ==
        {NormalizedValue(secondItems[matchIndex[inBothIdx[k]]].name) : k \in 1..Len(inBothIdx)}
      NotMatched(game) == NormalizedValue(game.name) \notin matchedSecondNames
  IN  [inBoth       |-> [k \in 1..Len(inBothIdx) |-> firstItems[inBothIdx[k]]],
       onlyInFirst  |-> [k \in 1..Len(onlyInFirstIdx) |-> firstItems[onlyInFirstIdx[k]]],
       onlyInSecond |-> SelectSeq(secondItems, NotMatched),
       matchIndex   |-> matchIndex]

\* CompareWishlistsUseCase.compareWishlists
CompareWishlists(firstW, secondW, threshold) ==
  ComparedLists(firstW.games, secondW.games,
                MatchIndexes(firstW.games, secondW.games, threshold))

RemoveDuplicatesByAppId(games) ==
  LET IsFirst(i) == \A k \in 1..(i - 1) : games[k].appId # games[i].appId
      idx == SelectSeq([i \in 1..Len(games) |-> i], IsFirst)
  IN  [k \in 1..Len(idx) |-> games[idx[k]]]

\* CompareWishlistsUseCase.removeDuplicates: the first game of every
\* normalized name, in order of first occurrence
RemoveDuplicates(games) ==
  LET IsFirst(i) == \A k \in 1..(i - 1) : NormalizedValue(games[k].name) # NormalizedValue(games[i].name)
      idx == SelectSeq([i \in 1..Len(games) |-> i], IsFirst)
  IN  [k \in 1..Len(idx) |-> games[idx[k]]]

TotalCountingBothSides(c) ==
  2 * Len(c.inBoth) + Len(c.onlyInFirst) + Len(c.onlyInSecond)

\* WishlistComparison.totalUniqueGames
TotalUniqueGames(c) == Len(c.inBoth) + Len(c.onlyInFirst) + Len(c.onlyInSecond)

\* WishlistComparison.matchCount
MatchCount(c) == Len(c.inBoth)

MatchPercentageUnguarded(c) ==
  IF TotalUniqueGames(c) = 0 THEN -1
  ELSE (2 * 10000 * MatchCount(c) + TotalUniqueGames(c)) \div (2 * TotalUniqueGames(c))

\* WishlistComparison.matchPercentage followed by toFixed(2): the percentage
\* in hundredths of a percent, rounded to nearest
MatchPercentage(c) ==
  IF TotalUniqueGames(c) = 0 THEN 0
  ELSE (2 * 10000 * MatchCount(c) + TotalUniqueGames(c)) \div (2 * TotalUniqueGames(c))

\* ComparisonFactory.create
WishlistComparison(inBoth, onlyInFirst, onlyInSecond, firstPlatform, secondPlatform) ==
  [inBoth |-> inBoth, onlyInFirst |-> onlyInFirst, onlyInSecond |-> onlyInSecond,
   firstPlatform |-> firstPlatform, secondPlatform |-> secondPlatform]

\* execute: the statistics of the output
Statistics(comparison) ==
  [totalGames      |-> TotalUniqueGames(comparison),
   matchCount      |-> MatchCount(comparison),
   onlyInFirst     |-> Len(comparison.onlyInFirst),
   onlyInSecond    |-> Len(comparison.onlyInSecond),
   matchPercentage |-> MatchPercentage(comparison)]

ComparisonWithDuplicates(raw, firstPlatform, secondPlatform) ==
  WishlistComparison(raw.inBoth, raw.onlyInFirst, raw.onlyInSecond,
                     firstPlatform, secondPlatform)

\* execute: ComparisonFactory.create on the lists without duplicates
DeduplicatedComparison(raw, firstPlatform, secondPlatform) ==
  WishlistComparison(RemoveDuplicates(raw.inBoth),
                     RemoveDuplicates(raw.onlyInFirst),
                     RemoveDuplicates(raw.onlyInSecond),
                     firstPlatform, secondPlatform)

\* execute: the output; filteredFirst, filteredSecond and matchIndex are the
\* locals of the call, kept for the properties about them
ExecuteOutput(comparison, filteredFirst, filteredSecond, matchIndex) ==
  [comparison     |-> comparison,
   statistics     |-> Statistics(comparison),
   filteredFirst  |-> filteredFirst,
   filteredSecond |-> filteredSecond,
   matchIndex     |-> matchIndex]

\* execute from the comparison of the two filtered collections on
ExecuteCompared(raw, filteredFirst, filteredSecond, firstPlatform, secondPlatform) ==
  ExecuteOutput(DeduplicatedComparison(raw, firstPlatform, secondPlatform),
                filteredFirst, filteredSecond, raw.matchIndex)

\* execute from the two filtered collections on
ExecuteFiltered(filteredFirst, filteredSecond, threshold, firstPlatform, secondPlatform) ==
  ExecuteCompared(CompareWishlists(filteredFirst, filteredSecond, threshold),
                  filteredFirst, filteredSecond, firstPlatform, secondPlatform)

\* Array.from(new Map(games.map(g => [g.appId, g])).values()): one game per
\* appId, at the place of the first game of that appId, and the last game
\* of that appId as the value
UniqueByAppId(games) ==
  LET IsFirst(i) == \A k \in 1..(i - 1) : games[k].appId # games[i].appId
      idx == SelectSeq([i \in 1..Len(games) |-> i], IsFirst)
      LastOf(appId) ==
        LET same == {i \in 1..Len(games) : games[i].appId = appId}
        IN  games[CHOOSE i \in same : \A k \in same : k <= i]
  IN  [k \in 1..Len(idx) |-> LastOf(games[idx[k]].appId)]

\* WishlistComparison.removeDuplicates
ComparisonRemoveDuplicates(c) ==
  WishlistComparison(UniqueByAppId(c.inBoth),
                     UniqueByAppId(c.onlyInFirst),
                     UniqueByAppId(c.onlyInSecond),
                     c.firstPlatform, c.secondPlatform)

ThresholdOfTruthy(ctorThreshold, fuzzyMatchThreshold) ==
  IF fuzzyMatchThreshold # <<>> /\ fuzzyMatchThreshold[1] # 0
    THEN fuzzyMatchThreshold[1]
    ELSE ctorThreshold

\* the threshold of a call: the input's, else the constructor's
ThresholdOf(ctorThreshold, fuzzyMatchThreshold) ==
  IF fuzzyMatchThreshold # <<>> THEN fuzzyMatchThreshold[1] ELSE ctorThreshold

\* the games of a list that the exclusion lists keep
KeptGames(games, excludedAppIds, excludedNames) ==
  LET Kept(game) == ~DroppedByFilter(game, excludedAppIds, excludedNames)
  IN  SelectSeq(games, Kept)

ExecuteFilteringAfterwards(ctorThreshold, firstW, secondW, excludedAppIds, excludedNames, fuzzyMatchThreshold) ==
  LET raw == CompareWishlists(firstW, secondW, ThresholdOf(ctorThreshold, fuzzyMatchThreshold))
  IN  ExecuteOutput(
        WishlistComparison(
          RemoveDuplicates(KeptGames(raw.inBoth, excludedAppIds, excludedNames)),
          RemoveDuplicates(KeptGames(raw.onlyInFirst, excludedAppIds, excludedNames)),
          RemoveDuplicates(KeptGames(raw.onlyInSecond, excludedAppIds, excludedNames)),
          firstW.platform, secondW.platform),
        FilterExcluded(firstW, excludedAppIds, excludedNames),
        FilterExcluded(secondW, excludedAppIds, excludedNames),
        raw.matchIndex)

\* CompareWishlistsUseCase.execute
Execute(ctorThreshold, firstW, secondW, excludedAppIds, excludedNames, fuzzyMatchThreshold) ==
  ExecuteFiltered(FilterExcluded(firstW, excludedAppIds, excludedNames),
                  FilterExcluded(secondW, excludedAppIds, excludedNames),
                  ThresholdOf(ctorThreshold, fuzzyMatchThreshold),
                  firstW.platform, secondW.platform)

\* main: excludedAppIds from the loaded collection
MainExcludedAppIds(coll) ==
  LET all == GetAll(coll)
      HasId(e) == e.appId # NoId /\ e.appId > 0
      kept == SelectSeq(all, HasId)
  IN  [i \in 1..Len(kept) |-> kept[i].appId]

\* main: excludedNames from the loaded collection
MainExcludedNames(coll) ==
  LET all == GetAll(coll)
  IN  [i \in 1..Len(all) |-> all[i].gameName]

\* no WishlistCollection method was called yet; 0 is no reference
NoCall == [op |-> "none", this |-> 0, other |-> 0, game |-> <<>>, ret |-> 0]

NoUcOut == [result |-> <<>>, filtered |-> <<>>, again |-> <<>>, deduplicated |-> <<>>]

(***************************************************************************)
(* Inputs of the name operations                                           *)
(***************************************************************************)
MaxNameLen == 3

DefaultThreshold == 20

\* new CompareWishlistsUseCase(fuzzyMatchThreshold): the argument is <<>>
\* (absent) or <<t>>
NewUseCase(arg) ==
  [fuzzyMatchThreshold |-> IF arg # <<>> THEN arg[1] ELSE DefaultThreshold]

Thresholds == {0, DefaultThreshold, 50}

GenChars == {"a", "n", "d", " "}

\* all strings over GenChars of length at most n
RECURSIVE StringsUpTo(_)
StringsUpTo(n) ==
  IF n = 0 THEN {<<>>}
  ELSE LET shorter == StringsUpTo(n - 1)
       IN  shorter \cup {Append(s, c) : s \in shorter, c \in GenChars}

SampleTitles ==
  { <<"V","I">>,
    <<"N","u","m","b","e","r"," ","9">>,
    <<"n","u","m","b","e","r","s">>,
    <<"O","n","l","i","n","e">>,
    <<"E","d","i","t","i","o","n">>,
    <<"R","e","m","a","s","t","e","r","e","d"," ","V","I">>,
    <<"D","e","f","i","n","i","t","i","v","e","!">>,
    <<"G","a","m","e"," ","o","f"," ","t","h","e"," ","Y","e","a","r">>,
    <<"e", CombiningAcute>>,
    <<"D","o","t","a"," ","2">>,
    <<"D","O","T","A","-","2">>,
    <<"D","o","t","a"," ","3">> }

NamesA == StringsUpTo(MaxNameLen) \cup SampleTitles

NamesB == StringsUpTo(MaxNameLen - 1) \cup SampleTitles

NoNameOut ==
  [normA |-> <<>>, normB |-> <<>>, renormA |-> <<>>,
   simAB |-> FALSE, simBA |-> FALSE]

(***************************************************************************)
(* Specification of the name operations: a pair of raw names and a         *)
(* threshold are drawn, then either rawA is normalized twice or the two    *)
(* names are compared in both directions.                                  *)
(***************************************************************************)
NameInit ==
  /\ rawA \in NamesA
  /\ rawB \in NamesB
  /\ thr \in Thresholds
  /\ nameOut = NoNameOut
  /\ namePc = "start"
  /\ useCase = NewUseCase(<<>>)
  /\ first = WishlistCollection(<<>>, "steam", "user1")
  /\ second = WishlistCollection(<<>>, "backloggd", "user2")
  /\ fuzzy = <<>>
  /\ entries = <<>>
  /\ exIds = <<>>
  /\ exNames = <<>>
  /\ ucOut = NoUcOut
  /\ ucPc = "idle"
  /\ heap = <<>>
  /\ call = NoCall
  /\ ncalls = 0
  /\ excl = <<>>
  /\ ops = <<>>
  /\ saves = <<>>

\* new GameName(new GameName(rawA).normalizedValue).normalizedValue
NormalizeTwice ==
  /\ namePc = "start"
  /\ nameOut' = [nameOut EXCEPT !.normA = Normalize(rawA),
                                !.renormA = Normalize(Normalize(rawA))]
  /\ namePc' = "renormalized"
  /\ UNCHANGED <<rawA, rawB, thr>>
  /\ UNCHANGED ucVars
  /\ UNCHANGED collVars
  /\ UNCHANGED repoVars

\* a.isSimilarTo(b, thr) and b.isSimilarTo(a, thr)
CompareNames ==
  /\ namePc = "start"
  /\ nameOut' = [nameOut EXCEPT !.normA = Normalize(rawA),
                                !.normB = Normalize(rawB),
                                !.simAB = NamesSimilar(rawA, rawB, thr),
                                !.simBA = NamesSimilar(rawB, rawA, thr)]
  /\ namePc' = "compared"
  /\ UNCHANGED <<rawA, rawB, thr>>
  /\ UNCHANGED ucVars
  /\ UNCHANGED collVars
  /\ UNCHANGED repoVars

NameNext == NormalizeTwice \/ CompareNames

SpecName == NameInit /\ [][NameNext]_vars

(***************************************************************************)
(* Inputs of the use case                                                  *)
(***************************************************************************)
\* games of the two wishlists together
MaxGames == 3

\* entries of the exclusion file
MaxEntries == 1

GamePool ==
  { [appId |-> 570, name |-> TitleDota2],
    [appId |-> 0,   name |-> TitleDota2Shout],
    [appId |-> 570, name |-> TitleDota2Joined],
    [appId |-> 620, name |-> TitleLimbo] }

EntryPool ==
  { [gameName |-> TitleDota2, appId |-> NoId],
    [gameName |-> TitleDota2Joined, appId |-> 570],
    [gameName |-> TitleLimbo, appId |-> 570] }

ExIdPool == {570}

ExNamePool == {TitleDota2Shout}

\* all sequences over S of length at most n
RECURSIVE SeqsUpTo(_, _)
SeqsUpTo(S, n) ==
  IF n = 0 THEN {<<>>}
  ELSE LET shorter == SeqsUpTo(S, n - 1)
       IN  shorter \cup {Append(q, x) : q \in shorter, x \in S}

UcThresholds == {0, 50}

\* the games and thresholds of the use case tests
FixturePool ==
  { [appId |-> 730, name |-> TitleCounterStrike],
    [appId |-> 730, name |-> TitleCsGo],
    [appId |-> 730, name |-> TitleCounterStrikeSpaced] }

FixtureThresholds == {5, DefaultThreshold, 30}

\* the use case of the tests' beforeEach and of main, games of the pool,
\* exclusions from the file or in the call
PoolInputs ==
  /\ useCase = NewUseCase(<<DefaultThreshold>>)
  /\ \E f \in SeqsUpTo(GamePool, MaxGames), g \in SeqsUpTo(GamePool, MaxGames) :
       /\ Len(f) + Len(g) <= MaxGames
       /\ first = WishlistCollection(f, "steam", "user1")
       /\ second = WishlistCollection(g, "backloggd", "user2")
  /\ fuzzy \in {<<>>} \cup {<<t>> : t \in UcThresholds}
  /\ \/ /\ entries \in SeqsUpTo(EntryPool, MaxEntries)
        /\ exIds = <<>>
        /\ exNames = <<>>
     \/ /\ entries = <<>>
        /\ exIds \in SeqsUpTo(ExIdPool, 1)
        /\ exNames \in SeqsUpTo(ExNamePool, 1)

\* a use case with or without constructor argument, the games of the tests,
\* a call with or without threshold, no exclusions
FixtureInputs ==
  /\ useCase \in {NewUseCase(<<>>)} \cup {NewUseCase(<<t>>) : t \in FixtureThresholds}
  /\ \E f \in SeqsUpTo(FixturePool, MaxGames), g \in SeqsUpTo(FixturePool, MaxGames) :
       /\ Len(f) + Len(g) <= MaxGames
       /\ first = WishlistCollection(f, "steam", "user1")
       /\ second = WishlistCollection(g, "backloggd", "user2")
  /\ fuzzy \in {<<>>} \cup {<<t>> : t \in FixtureThresholds}
  /\ entries = <<>>
  /\ exIds = <<>>
  /\ exNames = <<>>

(***************************************************************************)
(* Specification of the use case: two wishlists, a threshold and the       *)
(* exclusions (the exclusion file for main, the two lists for a direct     *)
(* call) are drawn; then execute is called directly, or main loads the     *)
(* exclusion file and runs the comparison, or the loaded collection        *)
(* filters the first wishlist's games.                                     *)
(***************************************************************************)
Init ==
  /\ rawA = <<>>
  /\ rawB = <<>>
  /\ thr = DefaultThreshold
  /\ nameOut = NoNameOut
  /\ namePc = "idle"
  /\ (PoolInputs \/ FixtureInputs)
  /\ ucOut = NoUcOut
  /\ ucPc = "start"
  /\ heap = <<>>
  /\ call = NoCall
  /\ ncalls = 0
  /\ excl = <<>>
  /\ ops = <<>>
  /\ saves = <<>>

\* ExcludedGameFactory.create throws 'Game name cannot be empty'
CreateThrows(gameName) == Len(gameName) = 0 \/ Len(Trim(gameName)) = 0

\* ExcludedGameFactory.fromLegacy, where create does not throw
FromLegacy(data) ==
  [gameName |-> Trim(data.gameName),
   appId |-> IF data.appId # 0 THEN data.appId ELSE NoId]

\* FileExclusionRepository.loadExcludedGames on a file holding the list
\* file: an entry that makes the factory throw leaves the empty collection
LoadExcludedGames(file) ==
  IF \E i \in 1..Len(file) : CreateThrows(file[i].gameName)
    THEN ExcludedGameCollection(<<>>)
    ELSE ExcludedGameCollection([i \in 1..Len(file) |-> FromLegacy(file[i])])

ExecuteCallDrainingExclusions ==
  /\ ucPc = "start"
  /\ ucOut' = [ucOut EXCEPT !.result =
                 Execute(useCase.fuzzyMatchThreshold, first, second, exIds, exNames, fuzzy)]
  /\ ucPc' = "executed"
  /\ exIds' = <<>>
  /\ exNames' = <<>>
  /\ UNCHANGED <<useCase, first, second, fuzzy, entries>>
  /\ UNCHANGED <<rawA, rawB, thr, nameOut, namePc>>
  /\ UNCHANGED collVars
  /\ UNCHANGED repoVars

\* useCase.execute({firstWishlist, secondWishlist, excludedAppIds,
\* excludedNames, fuzzyMatchThreshold})
ExecuteCall ==
  /\ ucPc = "start"
  /\ ucOut' = [ucOut EXCEPT !.result =
                 Execute(useCase.fuzzyMatchThreshold, first, second, exIds, exNames, fuzzy)]
  /\ ucPc' = "executed"
  /\ UNCHANGED <<useCase, first, second, fuzzy, entries, exIds, exNames>>
  /\ UNCHANGED <<rawA, rawB, thr, nameOut, namePc>>
  /\ UNCHANGED collVars
  /\ UNCHANGED repoVars

\* a second useCase.execute with the same input object
ExecuteAgain ==
  /\ ucPc = "executed"
  /\ ucOut' = [ucOut EXCEPT !.again =
                 Execute(useCase.fuzzyMatchThreshold, first, second, exIds, exNames, fuzzy)]
  /\ ucPc' = "executedAgain"
  /\ UNCHANGED <<useCase, first, second, fuzzy, entries, exIds, exNames>>
  /\ UNCHANGED <<rawA, rawB, thr, nameOut, namePc>>
  /\ UNCHANGED collVars
  /\ UNCHANGED repoVars

\* main: load the exclusions, derive excludedAppIds and excludedNames, run
\* WishlistService.compareWishlists, which calls execute without threshold
MainCall ==
  /\ ucPc = "start"
  /\ LET excludedGames == LoadExcludedGames(entries)
     IN  ucOut' = [ucOut EXCEPT !.result =
                     Execute(DefaultThreshold, first, second,
                             MainExcludedAppIds(excludedGames),
                             MainExcludedNames(excludedGames), <<>>)]
  /\ ucPc' = "main"
  /\ UNCHANGED <<useCase, first, second, fuzzy, entries, exIds, exNames>>
  /\ UNCHANGED <<rawA, rawB, thr, nameOut, namePc>>
  /\ UNCHANGED collVars
  /\ UNCHANGED repoVars

\* loadExcludedGames().filterGames(games) on the first wishlist's games
FilterGamesCall ==
  /\ ucPc = "start"
  /\ ucOut' = [ucOut EXCEPT !.filtered =
                 FilterGames(LoadExcludedGames(entries), first.games)]
  /\ ucPc' = "filtered"
  /\ UNCHANGED <<useCase, first, second, fuzzy, entries, exIds, exNames>>
  /\ UNCHANGED <<rawA, rawB, thr, nameOut, namePc>>
  /\ UNCHANGED collVars
  /\ UNCHANGED repoVars

\* the comparison built from the games of the two wishlists as they are
DirectComparison ==
  WishlistComparison(first.games, second.games, second.games \o first.games,
                     first.platform, second.platform)

\* new WishlistComparison(inBoth, onlyInFirst, onlyInSecond, ...)
\*   .removeDuplicates()
DeduplicateCall ==
  /\ ucPc = "start"
  /\ ucOut' = [ucOut EXCEPT !.deduplicated = ComparisonRemoveDuplicates(DirectComparison)]
  /\ ucPc' = "deduplicated"
  /\ UNCHANGED <<useCase, first, second, fuzzy, entries, exIds, exNames>>
  /\ UNCHANGED <<rawA, rawB, thr, nameOut, namePc>>
  /\ UNCHANGED collVars
  /\ UNCHANGED repoVars

Next == ExecuteCall \/ ExecuteAgain \/ MainCall \/ FilterGamesCall \/ DeduplicateCall

Spec == Init /\ [][Next]_vars

(***************************************************************************)
(* Specification of WishlistCollection: two collections are created, then  *)
(* methods are called on any collection created or returned so far, with   *)
(* any such collection as the other one.                                   *)
(***************************************************************************)
\* method calls in a run
MaxCalls == 2

CollectionGameDota == [appId |-> 570, name |-> TitleDota2]

CollectionGameDotaJoined == [appId |-> 570, name |-> TitleDota2Joined]

CollectionGameLimbo == [appId |-> 620, name |-> TitleLimbo]

\* a second game of the same title, written in lower case
TitleDota2Lower == <<"d","o","t","a"," ","2">>

CollectionGameDotaLower == [appId |-> 999, name |-> TitleDota2Lower]

CollectionGames == {CollectionGameDota, CollectionGameDotaJoined, CollectionGameLimbo}

\* the game lists the collections are created from
CollectionLists ==
  { <<>>,
    <<CollectionGameDota>>,
    <<CollectionGameLimbo>>,
    <<CollectionGameDota, CollectionGameLimbo>>,
    <<CollectionGameLimbo, CollectionGameDotaJoined>>,
    <<CollectionGameDota, CollectionGameDotaJoined>>,
    <<CollectionGameDota, CollectionGameDotaLower>>,
    <<CollectionGameDotaJoined, CollectionGameLimbo, CollectionGameDota>> }

CollInit ==
  /\ rawA = <<>>
  /\ rawB = <<>>
  /\ thr = DefaultThreshold
  /\ nameOut = NoNameOut
  /\ namePc = "idle"
  /\ useCase = NewUseCase(<<>>)
  /\ first = WishlistCollection(<<>>, "steam", "user1")
  /\ second = WishlistCollection(<<>>, "backloggd", "user2")
  /\ fuzzy = <<>>
  /\ entries = <<>>
  /\ exIds = <<>>
  /\ exNames = <<>>
  /\ ucOut = NoUcOut
  /\ ucPc = "idle"
  /\ \E f \in CollectionLists, g \in CollectionLists :
       heap = << WishlistCollection(f, "steam", "user1"),
                 WishlistCollection(g, "backloggd", "user2") >>
  /\ call = NoCall
  /\ ncalls = 0
  /\ excl = <<>>
  /\ ops = <<>>
  /\ saves = <<>>

\* the receivers of a call: every collection created so far
Receivers == 1..Len(heap)

\* the collections handed to merge, difference and intersection
Others == 1..Len(heap)

\* the state after a method call that returned r
Called(op, this, other, game, r) ==
  /\ heap' = r.heap
  /\ call' = [op |-> op, this |-> this, other |-> other, game |-> game, ret |-> r.ret]
  /\ ncalls' = ncalls + 1
  /\ UNCHANGED <<rawA, rawB, thr, nameOut, namePc>>
  /\ UNCHANGED ucVars
  /\ UNCHANGED repoVars

\* collection.add(game)
AddCall ==
  /\ ncalls < MaxCalls
  /\ \E this \in Receivers, game \in CollectionGames :
       Called("add", this, 0, game, Add(heap, this, game))

\* collection.remove(game)
RemoveCall ==
  /\ ncalls < MaxCalls
  /\ \E this \in Receivers, game \in CollectionGames :
       Called("remove", this, 0, game, Remove(heap, this, game))

\* collection.filter(predicate), the predicate selecting an appId
FilterCall ==
  /\ ncalls < MaxCalls
  /\ \E this \in Receivers :
       Called("filter", this, 0, <<>>,
              Filter(heap, this, [g \in SeqToSet(heap[this].games) |-> g.appId = 570]))

\* collection.merge(other)
MergeCall ==
  /\ ncalls < MaxCalls
  /\ \E this \in Receivers, other \in Others :
       Called("merge", this, other, <<>>, Merge(heap, this, other))

\* collection.difference(other)
DifferenceCall ==
  /\ ncalls < MaxCalls
  /\ \E this \in Receivers, other \in Others :
       Called("difference", this, other, <<>>, Difference(heap, this, other))

\* collection.intersection(other)
IntersectionCall ==
  /\ ncalls < MaxCalls
  /\ \E this \in Receivers, other \in Others :
       Called("intersection", this, other, <<>>, Intersection(heap, this, other))

\* the names asked for: a title as stored, in another case, with other
\* punctuation, and a title no collection holds
FindByNameQueries == {TitleDota2, TitleDota2Lower, TitleDota2Shout, TitleCsGo}

\* collection.findByName(name): a query, the heap stays as it is; the call
\* records the name asked for and the list returned
FindByNameCall ==
  /\ ncalls < MaxCalls
  /\ \E this \in Receivers, name \in FindByNameQueries :
       Called("findByName", this, 0, name,
              [heap |-> heap, ret |-> FindByName(heap[this], name)])

CollNext ==
  \/ AddCall \/ RemoveCall \/ FilterCall \/ MergeCall \/ DifferenceCall \/ IntersectionCall
  \/ FindByNameCall

SpecCollection == CollInit /\ [][CollNext]_vars

(***************************************************************************)
(* Specification of FileExclusionRepository: there is no exclusion file at *)
(* the start; excludeGame, unexcludeGame and isGameExcluded are called,    *)
(* and a call may start while others wait at an await.  An async method    *)
(* runs to its next await in one step: loadExcludedGames and               *)
(* saveExcludedGames have synchronous bodies, so the file is read when the *)
(* method is called and written when the method resumes after the load.    *)
(***************************************************************************)
\* repository calls in a run
MaxOps == 3

\* a name of white space only
TitleBlank == <<" ">>

\* the games excludeGame is called with
ExcludeArgs ==
  { [gameName |-> TitleDota2, appId |-> NoId],
    [gameName |-> TitleDota2, appId |-> 570],
    [gameName |-> TitleBlank, appId |-> NoId] }

\* the games unexcludeGame is called with
UnexcludeArgs ==
  { [gameName |-> TitleDota2, appId |-> NoId],
    [gameName |-> TitleDota2, appId |-> 570] }

\* the games isGameExcluded is asked about
QueryArgs == { [gameName |-> TitleDota2, appId |-> 570] }

SaveExcludedGamesMerging(file, coll) ==
  LET New(e) == \A i \in 1..Len(file) : file[i] # e
  IN  file \o SelectSeq(GetAll(coll), New)

\* FileExclusionRepository.saveExcludedGames: the file after the call.
\* writeFileSync is taken to return, so that the method returns true (a
\* write that throws leaves the file to the file system and makes the
\* caller report 'Failed to save ...')
SaveExcludedGames(file, coll) == GetAll(coll)

RepoInit ==
  /\ rawA = <<>>
  /\ rawB = <<>>
  /\ thr = DefaultThreshold
  /\ nameOut = NoNameOut
  /\ namePc = "idle"
  /\ useCase = NewUseCase(<<>>)
  /\ first = WishlistCollection(<<>>, "steam", "user1")
  /\ second = WishlistCollection(<<>>, "backloggd", "user2")
  /\ fuzzy = <<>>
  /\ entries = <<>>
  /\ exIds = <<>>
  /\ exNames = <<>>
  /\ ucOut = NoUcOut
  /\ ucPc = "idle"
  /\ heap = <<>>
  /\ call = NoCall
  /\ ncalls = 0
  /\ excl = <<>>
  /\ ops = <<>>
  /\ saves = <<>>

\* what a repository step leaves alone
RepoFrame ==
  /\ UNCHANGED <<rawA, rawB, thr, nameOut, namePc>>
  /\ UNCHANGED <<useCase, first, second, fuzzy, exIds, exNames, ucOut, ucPc>>
  /\ UNCHANGED collVars

\* a call of kind with the game args: the method runs to
\* `await this.loadExcludedGames()`, the collection is loaded from the file
\* as it is now; seen is the number of writes made before the load
Started(kind, args) ==
  /\ Len(ops) < MaxOps
  /\ LET loaded == Alloc(excl, LoadExcludedGames(entries))
     IN  /\ excl' = loaded.heap
         /\ ops' = Append(ops, [kind |-> kind, gameName |-> args.gameName,
                                appId |-> args.appId, pc |-> "loaded",
                                collection |-> loaded.ret, updated |-> 0,
                                seen |-> Len(saves),
                                result |-> <<>>])
  /\ UNCHANGED <<entries, saves>>
  /\ RepoFrame

\* the method p returns result
Returns(p, result) ==
  /\ ops' = [ops EXCEPT ![p].pc = "returned", ![p].result = result]
  /\ UNCHANGED <<entries, excl, saves>>
  /\ RepoFrame

\* the method p goes on with the collection updated and saves it: the file
\* is written and p waits for the save
Saves(p, updated) ==
  /\ excl' = updated.heap
  /\ entries' = SaveExcludedGames(entries, updated.heap[updated.ret])
  /\ saves' = Append(saves, [op |-> p, file |-> entries'])
  /\ ops' = [ops EXCEPT ![p].pc = "saved", ![p].updated = updated.ret]
  /\ RepoFrame

\* repository.excludeGame(gameName, appId) is called
ExcludeGameCall == \E args \in ExcludeArgs : Started("excludeGame", args)

\* excludeGame after the load: already excluded, or add and save
ExcludeGameResume ==
  \E p \in 1..Len(ops) :
    /\ ops[p].kind = "excludeGame"
    /\ ops[p].pc = "loaded"
    /\ IF IsExcluded(excl[ops[p].collection], ops[p].gameName, ops[p].appId)
         THEN Returns(p, [success |-> FALSE, message |-> "is already excluded"])
         ELSE Saves(p, ExcludedAdd(excl, ops[p].collection, ops[p].gameName, ops[p].appId))

\* excludeGame after the save, which returned true
ExcludeGameReturn ==
  \E p \in 1..Len(ops) :
    /\ ops[p].kind = "excludeGame"
    /\ ops[p].pc = "saved"
    /\ Returns(p, [success |-> TRUE, message |-> "has been excluded"])

\* repository.unexcludeGame(gameName, appId) is called
UnexcludeGameCall == \E args \in UnexcludeArgs : Started("unexcludeGame", args)

\* unexcludeGame after the load: not excluded, or remove and save
UnexcludeGameResume ==
  \E p \in 1..Len(ops) :
    /\ ops[p].kind = "unexcludeGame"
    /\ ops[p].pc = "loaded"
    /\ IF ~IsExcluded(excl[ops[p].collection], ops[p].gameName, ops[p].appId)
         THEN Returns(p, [success |-> FALSE, message |-> "is not in the exclusion list"])
         ELSE Saves(p, ExcludedRemove(excl, ops[p].collection, ops[p].gameName, ops[p].appId))

\* unexcludeGame after the save, which returned true
UnexcludeGameReturn ==
  \E p \in 1..Len(ops) :
    /\ ops[p].kind = "unexcludeGame"
    /\ ops[p].pc = "saved"
    /\ Returns(p, [success |-> TRUE, message |-> "has been included"])

\* repository.isGameExcluded(gameName, appId) is called
IsGameExcludedCall == \E args \in QueryArgs : Started("isGameExcluded", args)

\* isGameExcluded after the load
IsGameExcludedReturn ==
  \E p \in 1..Len(ops) :
    /\ ops[p].kind = "isGameExcluded"
    /\ ops[p].pc = "loaded"
    /\ Returns(p, IsExcluded(excl[ops[p].collection], ops[p].gameName, ops[p].appId))

RepoNext ==
  \/ ExcludeGameCall \/ ExcludeGameResume \/ ExcludeGameReturn
  \/ UnexcludeGameCall \/ UnexcludeGameResume \/ UnexcludeGameReturn
  \/ IsGameExcludedCall \/ IsGameExcludedReturn

SpecRepository == RepoInit /\ [][RepoNext]_vars

(***************************************************************************)
(* Properties                                                              *)
(***************************************************************************)
\* the call of the use case has returned
Returned == ucPc \in {"executed", "main"}

\* the threshold, exclusion ids and exclusion names of the returned call
CallThreshold ==
  IF ucPc = "main" THEN DefaultThreshold
  ELSE IF fuzzy # <<>> THEN fuzzy[1] ELSE useCase.fuzzyMatchThreshold

CallExcludedAppIds ==
  IF ucPc = "main" THEN MainExcludedAppIds(LoadExcludedGames(entries)) ELSE exIds

CallExcludedNames ==
  IF ucPc = "main" THEN MainExcludedNames(LoadExcludedGames(entries)) ELSE exNames

\* the normalized names of a list of games
NamesOf(games) == {NormalizedValue(games[i].name) : i \in 1..Len(games)}

\* the index of the first game of secondItems similar to game, 0 if none
FirstSimilar(game, secondItems, threshold) ==
  LET similar == {j \in 1..Len(secondItems) :
                    NamesSimilar(game.name, secondItems[j].name, threshold)}
  IN  IF similar = {} THEN 0 ELSE CHOOSE j \in similar : \A k \in similar : j <= k

\* C1: after execute, no normalized name occurs in two of the lists inBoth,
\* onlyInFirst, onlyInSecond.
C1_ListsPairwiseDisjoint ==
  Returned =>
    LET c == ucOut.result.comparison
    IN  /\ NamesOf(c.inBoth) \cap NamesOf(c.onlyInFirst) = {}
        /\ NamesOf(c.inBoth) \cap NamesOf(c.onlyInSecond) = {}
        /\ NamesOf(c.onlyInFirst) \cap NamesOf(c.onlyInSecond) = {}

\* C2 as stated: statistics.totalGames is the number of distinct normalized
\* names of the two post-exclusion collections taken together.
C2_TotalIsDistinctNames ==
  Returned =>
    LET r == ucOut.result
    IN  r.statistics.totalGames =
          Cardinality(NamesOf(r.filteredFirst.games) \cup NamesOf(r.filteredSecond.games))

\* C2 as amended: statistics.totalGames is the number of distinct normalized
\* names of the post-exclusion first collection plus the number of distinct
\* normalized names of the post-exclusion second collection that are not the
\* normalized name of the first similar second-side game of a first-side game.
C2_TotalIsFirstPlusUnmatchedSecond ==
  Returned =>
    LET r == ucOut.result
        f == r.filteredFirst.games
        g == r.filteredSecond.games
        hit == {FirstSimilar(f[i], g, CallThreshold) : i \in 1..Len(f)} \ {0}
        taken == {NormalizedValue(g[j].name) : j \in hit}
    IN  /\ r.statistics.totalGames =
             Cardinality(NamesOf(f)) + Cardinality(NamesOf(g) \ taken)
        /\ r.statistics.totalGames =
             Len(r.comparison.inBoth) + Len(r.comparison.onlyInFirst)
               + Len(r.comparison.onlyInSecond)

\* a first-side game was matched to a second-side game of another normalized
\* name, and the total differs from the number of distinct names
C2_Witness ==
  /\ Returned
  /\ LET r == ucOut.result
         f == r.filteredFirst.games
         g == r.filteredSecond.games
     IN  /\ \E i \in 1..Len(f) :
               /\ r.matchIndex[i] # 0
               /\ NormalizedValue(f[i].name) # NormalizedValue(g[r.matchIndex[i]].name)
         /\ r.statistics.totalGames # Cardinality(NamesOf(f) \cup NamesOf(g))

\* C3: the match of a first-side game is the first second-side game, in
\* order, that is similar to it and whose normalized name no earlier match
\* consumed; so no second-side normalized name is matched by two first-side
\* games.
C3_MatchSkipsConsumedNames ==
  Returned =>
    LET r == ucOut.result
        f == r.filteredFirst.games
        g == r.filteredSecond.games
        consumed(i) == {NormalizedValue(g[r.matchIndex[k]].name) :
                          k \in {h \in 1..(i - 1) : r.matchIndex[h] # 0}}
        free(i) == {j \in 1..Len(g) :
                      /\ NamesSimilar(f[i].name, g[j].name, CallThreshold)
                      /\ NormalizedValue(g[j].name) \notin consumed(i)}
    IN  /\ \A i \in 1..Len(f) :
             r.matchIndex[i] =
               IF free(i) = {} THEN 0 ELSE CHOOSE j \in free(i) : \A k \in free(i) : j <= k
        /\ \A i, k \in 1..Len(f) :
             i < k /\ r.matchIndex[i] # 0 /\ r.matchIndex[k] # 0
               => NormalizedValue(g[r.matchIndex[i]].name)
                    # NormalizedValue(g[r.matchIndex[k]].name)

\* C4: normalizing a normalized name returns it unchanged.
C4_NormalizeIdempotent ==
  namePc = "renormalized" => nameOut.renormA = nameOut.normA

\* C5: a.isSimilarTo(b, t) equals b.isSimilarTo(a, t).
C5_SimilaritySymmetric ==
  namePc = "compared" => nameOut.simAB = nameOut.simBA

\* two names of different normalized lengths were found similar
C5_Witness ==
  /\ namePc = "compared"
  /\ Len(nameOut.normA) # Len(nameOut.normB)
  /\ nameOut.simAB

\* the unit-cost edit distance, by its defining recurrence
RECURSIVE UnitEditDistance(_, _)
UnitEditDistance(a, b) ==
  IF a = <<>> THEN Len(b)
  ELSE IF b = <<>> THEN Len(a)
  ELSE IF Head(a) = Head(b) THEN UnitEditDistance(Tail(a), Tail(b))
  ELSE 1 + Min(UnitEditDistance(Tail(a), Tail(b)),
               Min(UnitEditDistance(Tail(a), b), UnitEditDistance(a, Tail(b))))

\* C6: isSimilarTo(a, b, t) is true exactly when the unit-cost edit distance
\* of the normalized names is at most t times the longer normalized length;
\* two names with empty normalized forms are similar, and so are identical
\* names.
C6_SimilarIffDistanceWithinLimit ==
  namePc = "compared" =>
    LET na == nameOut.normA
        nb == nameOut.normB
    IN  /\ nameOut.simAB <=>
             UnitEditDistance(na, nb) * 100 <= Max(Len(na), Len(nb)) * thr
        /\ (na = <<>> /\ nb = <<>>) => nameOut.simAB
        /\ rawA = rawB => nameOut.simAB

\* two names of equal normalized length and different normalized forms were
\* found similar at a positive threshold
C6_Witness ==
  /\ namePc = "compared"
  /\ thr > 0
  /\ Len(nameOut.normA) = Len(nameOut.normB)
  /\ nameOut.normA # nameOut.normB
  /\ nameOut.simAB

\* the games of a list that the exclusion lists of the call drop
KeptByCall(game) == ~DroppedByFilter(game, CallExcludedAppIds, CallExcludedNames)

\* C7: execute with exclusion lists returns what execute without exclusions
\* returns on the two collections with the excluded games removed
\* beforehand; no output list holds an excluded game, and every game in both
\* is similar to a second-side game that is not excluded.
C7_ExclusionsAppliedBeforeMatching ==
  Returned =>
    LET r == ucOut.result
        c == r.comparison
        pre == Execute(DefaultThreshold,
                       CollectionFilter(first, [g \in SeqToSet(first.games) |-> KeptByCall(g)]),
                       CollectionFilter(second, [g \in SeqToSet(second.games) |-> KeptByCall(g)]),
                       <<>>, <<>>, <<CallThreshold>>)
        out == c.inBoth \o c.onlyInFirst \o c.onlyInSecond
    IN  /\ c = pre.comparison
        /\ r.statistics = pre.statistics
        /\ \A i \in 1..Len(out) : KeptByCall(out[i])
        /\ \A i \in 1..Len(c.inBoth) :
             \E j \in 1..Len(second.games) :
               /\ KeptByCall(second.games[j])
               /\ NamesSimilar(c.inBoth[i].name, second.games[j].name, CallThreshold)

\* an excluded second-side game is similar to a first-side game that is not
\* excluded, and that game is reported as only in first
C7_Witness ==
  /\ Returned
  /\ \E i \in 1..Len(first.games), j \in 1..Len(second.games) :
       /\ KeptByCall(first.games[i])
       /\ ~KeptByCall(second.games[j])
       /\ NamesSimilar(first.games[i].name, second.games[j].name, CallThreshold)
       /\ first.games[i] \in SeqToSet(ucOut.result.comparison.onlyInFirst)

\* C8: filterGames(C) returns exactly the games of C for which isExcluded is
\* false, in their original order.
C8_FilterGamesKeepsExactlyNotExcluded ==
  ucPc = "filtered" =>
    LET coll == LoadExcludedGames(entries)
        src == first.games
        res == ucOut.filtered
        keptIdx == {i \in 1..Len(src) : ~IsExcluded(coll, src[i].name, src[i].appId)}
        nth(k) == CHOOSE i \in keptIdx : Cardinality({j \in keptIdx : j <= i}) = k
    IN  /\ Len(res) = Cardinality(keptIdx)
        /\ \A k \in 1..Len(res) : res[k] = src[nth(k)]
        /\ \A k \in 1..Len(res) : ~IsExcluded(coll, res[k].name, res[k].appId)

\* filterGames removed a game and kept another
C8_Witness ==
  /\ ucPc = "filtered"
  /\ Len(ucOut.filtered) > 0
  /\ Len(ucOut.filtered) < Len(first.games)

\* C9: when an exclusion entry and a game both carry an id, the entry
\* excludes the game if and only if the two ids are equal (here: every entry
\* of the exclusion file carries an id, and main runs the comparison).
C9_IdDecidesWhenBothHaveIds ==
  (ucPc = "main" /\ \A i \in 1..Len(entries) : entries[i].appId # NoId) =>
    \A k \in 1..Len(first.games) :
      LET game == first.games[k]
      IN  game.appId # 0 =>
            (game \notin SeqToSet(ucOut.result.filteredFirst.games)
               <=> \E i \in 1..Len(entries) : entries[i].appId = game.appId)

\* C10: an entry with a name and no id excludes every game whose normalized
\* name equals the entry's normalized name, whatever the game's id
\* (here: in ExcludedGameCollection.filterGames).
C10_NameOnlyEntryExcludesByNormalizedName ==
  ucPc = "filtered" =>
    \A i \in 1..Len(entries), k \in 1..Len(first.games) :
      (/\ entries[i].appId = NoId
       /\ NormalizedValue(entries[i].gameName) = NormalizedValue(first.games[k].name))
        => first.games[k] \notin SeqToSet(ucOut.filtered)


FixturePair ==
  /\ Len(first.games) = 1
  /\ Len(second.games) = 1
  /\ first.games[1].name = TitleCounterStrike
  /\ second.games[1].name = TitleCounterStrikeSpaced

\* C12: execute matches with the threshold of the call when the call has
\* one (0 included) and else with the threshold of the constructor, which
\* is 0.2 when the constructor got none; the pair Counter-Strike / Counter
\* Strike is matched at 0.2 and not matched at 0.05.
C12_ThresholdOfCallElseConstructor ==
  ucPc = "executed" =>
    LET r == ucOut.result
        expected == IF fuzzy # <<>> THEN fuzzy[1] ELSE useCase.fuzzyMatchThreshold
    IN  /\ NewUseCase(<<>>).fuzzyMatchThreshold = 20
        /\ r.matchIndex =
             [i \in 1..Len(r.filteredFirst.games) |->
                FirstSimilar(r.filteredFirst.games[i], r.filteredSecond.games, expected)]
        /\ FixturePair /\ expected = 20 => Len(r.comparison.inBoth) = 1
        /\ FixturePair /\ expected = 5 =>
             /\ Len(r.comparison.inBoth) = 0
             /\ Len(r.comparison.onlyInFirst) = 1
             /\ Len(r.comparison.onlyInSecond) = 1

\* the pair compared without threshold in the call by a use case built with
\* 0.05: not matched
C12_Witness ==
  /\ ucPc = "executed"
  /\ FixturePair
  /\ fuzzy = <<>>
  /\ useCase.fuzzyMatchThreshold = 5
  /\ Len(ucOut.result.comparison.inBoth) = 0


\* C13: comparing two empty collections gives three empty lists, totalGames
\* 0 and the match percentage 0.
C13_EmptyCollectionsGiveEmptyResult ==
  Returned /\ first.games = <<>> /\ second.games = <<>> =>
    LET r == ucOut.result
    IN  /\ r.comparison.inBoth = <<>>
        /\ r.comparison.onlyInFirst = <<>>
        /\ r.comparison.onlyInSecond = <<>>
        /\ r.statistics.totalGames = 0
        /\ r.statistics.matchCount = 0
        /\ r.statistics.matchPercentage = 0

\* two empty collections compared by a direct call with a threshold
C13_Witness ==
  /\ ucPc = "executed"
  /\ first.games = <<>>
  /\ second.games = <<>>
  /\ fuzzy # <<>>
  /\ ucOut.result.statistics.totalGames = 0


\* the first game of every normalized name of a list, in the list's order
FirstOfEveryName(games) ==
  LET IsFirst(i) ==
        \A k \in 1..(i - 1) : NormalizedValue(games[k].name) # NormalizedValue(games[i].name)
      idx == SelectSeq([i \in 1..Len(games) |-> i], IsFirst)
  IN  [k \in 1..Len(idx) |-> games[idx[k]]]

\* C14: WishlistComparison.removeDuplicates returns a comparison whose three
\* lists hold the first game of every normalized name of the corresponding
\* original list, in the original order.
C14_ComparisonDeduplicatesByName ==
  ucPc = "deduplicated" =>
    /\ ucOut.deduplicated.inBoth = FirstOfEveryName(DirectComparison.inBoth)
    /\ ucOut.deduplicated.onlyInFirst = FirstOfEveryName(DirectComparison.onlyInFirst)
    /\ ucOut.deduplicated.onlyInSecond = FirstOfEveryName(DirectComparison.onlyInSecond)


\* no two games of the list have the same normalized name
DistinctNames(games) ==
  \A i, k \in 1..Len(games) :
    i # k => NormalizedValue(games[i].name) # NormalizedValue(games[k].name)

\* C15: after execute none of inBoth, onlyInFirst, onlyInSecond holds two
\* games of the same normalized name; for first = [Counter-Strike, CS:GO]
\* and second = [Counter Strike] at threshold 0.2, inBoth has one entry.
C15_ResultListsHaveNoDuplicates ==
  Returned =>
    LET c == ucOut.result.comparison
    IN  /\ DistinctNames(c.inBoth)
        /\ DistinctNames(c.onlyInFirst)
        /\ DistinctNames(c.onlyInSecond)
        /\ ( /\ Len(first.games) = 2
             /\ first.games[1].name = TitleCounterStrike
             /\ first.games[2].name = TitleCsGo
             /\ Len(second.games) = 1
             /\ second.games[1].name = TitleCounterStrikeSpaced
             /\ CallThreshold = 20 ) => Len(c.inBoth) = 1

\* the first collection lists Counter-Strike twice, the second Counter
\* Strike once, and the match is reported once
C15_Witness ==
  /\ ucPc = "executed"
  /\ Len(first.games) = 2
  /\ first.games[1].name = TitleCounterStrike
  /\ first.games[2].name = TitleCounterStrike
  /\ Len(second.games) = 1
  /\ second.games[1].name = TitleCounterStrikeSpaced
  /\ ucOut.result.matchIndex = <<1, 1>>
  /\ Len(ucOut.result.comparison.inBoth) = 1


\* C16: totalGames is |inBoth| + |onlyInFirst| + |onlyInSecond|; the match
\* percentage is matchCount / totalGames * 100 (reported to two decimals,
\* here in hundredths of a percent) and 0 when totalGames is 0; it lies
\* between 0 and 100 and is 100 exactly when the result is not empty and
\* onlyInFirst and onlyInSecond are empty.
C16_MatchPercentageOfTotal ==
  Returned =>
    LET c == ucOut.result.comparison
        st == ucOut.result.statistics
        total == Len(c.inBoth) + Len(c.onlyInFirst) + Len(c.onlyInSecond)
        error == st.matchPercentage * total - 10000 * Len(c.inBoth)
    IN  /\ st.totalGames = total
        /\ st.matchCount = Len(c.inBoth)
        /\ total = 0 => st.matchPercentage = 0
        /\ total > 0 => 2 * error <= total /\ 2 * error > -total
        /\ st.matchPercentage >= 0
        /\ st.matchPercentage <= 10000
        /\ st.matchPercentage = 10000
             <=> (total > 0 /\ c.onlyInFirst = <<>> /\ c.onlyInSecond = <<>>)

\* one match and one game on the first side only: 50.00%
C16_Witness ==
  /\ Returned
  /\ ucOut.result.statistics.totalGames = 2
  /\ ucOut.result.statistics.matchCount = 1
  /\ Len(ucOut.result.comparison.onlyInFirst) = 1
  /\ ucOut.result.statistics.matchPercentage = 5000


\* C17: add returns the collection it was called on when that collection
\* contains a game of the same appId, and otherwise a new collection whose
\* items are the items of the receiver followed by the game, with the
\* receiver's platform and userId.
C17_AddNoOpOrAppend ==
  [][ (call'.op = "add" /\ ncalls' = ncalls + 1) =>
        LET this == call'.this
            game == call'.game
            ret  == call'.ret
        IN  IF \E i \in 1..Len(heap[this].games) : heap[this].games[i].appId = game.appId
              THEN ret = this /\ heap' = heap
              ELSE /\ ret \notin 1..Len(heap)
                   /\ ret \in 1..Len(heap')
                   /\ heap'[ret].games = Append(heap[this].games, game)
                   /\ heap'[ret].platform = heap[this].platform
                   /\ heap'[ret].userId = heap[this].userId ]_vars

\* add of a game whose appId the collection holds under another name: the
\* receiver is returned and no object was created
C17_Witness ==
  /\ call.op = "add"
  /\ call.ret = call.this
  /\ call.game \notin SeqToSet(heap[call.this].games)
  /\ Len(heap) = 2


\* C18: no method call changes a collection that exists: after add, remove,
\* filter, merge, difference or intersection every object keeps its items,
\* their order, its platform and its userId; only new objects appear.
C18_CollectionsNeverMutated ==
  [][ /\ Len(heap') >= Len(heap)
      /\ \A r \in 1..Len(heap) : heap'[r] = heap[r] ]_vars

\* two calls were made, the second a merge on the result of the first that
\* added games, and four collections exist
C18_Witness ==
  /\ ncalls = 2
  /\ Len(heap) = 4
  /\ call.op = "merge"
  /\ call.this = 3
  /\ Len(heap[4].games) > Len(heap[3].games)
  /\ heap[3].games # heap[1].games


\* the appIds of a list of games
AppIdsOf(games) == {games[i].appId : i \in 1..Len(games)}

\* C19: the collection merge returns holds the receiver's items first, then
\* items of other in other's order; no item added from other has an appId
\* that an earlier item of the merged collection has; an appId is in the
\* merged collection exactly when it is in the receiver or in other; the
\* platform and userId are the receiver's.
C19_MergeIsUnionById ==
  call.op = "merge" =>
    LET self   == heap[call.this]
        other  == heap[call.other]
        merged == heap[call.ret]
        added  == SubSeq(merged.games, Len(self.games) + 1, Len(merged.games))
        Added(g) == g \in SeqToSet(added)
    IN  /\ Len(merged.games) >= Len(self.games)
        /\ SubSeq(merged.games, 1, Len(self.games)) = self.games
        /\ \A i \in 1..Len(added) : added[i] \in SeqToSet(other.games)
        /\ \A i \in (Len(self.games) + 1)..Len(merged.games) :
             \A k \in 1..(i - 1) : merged.games[k].appId # merged.games[i].appId
        /\ AppIdsOf(merged.games) = AppIdsOf(self.games) \cup AppIdsOf(other.games)
        /\ merged.platform = self.platform
        /\ merged.userId = self.userId


\* the games of self whose appId is an appId of other, in self's order
GamesWithIdIn(self, other) ==
  LET Present(g) == g.appId \in AppIdsOf(other.games)
  IN  SelectSeq(self.games, Present)

\* the games of self whose appId is no appId of other, in self's order
GamesWithIdNotIn(self, other) ==
  LET Absent(g) == g.appId \notin AppIdsOf(other.games)
  IN  SelectSeq(self.games, Absent)

\* C20: difference(other) returns the items of the receiver whose appId
\* other does not hold and intersection(other) those whose appId other
\* holds, both in the receiver's order: for every two collections the two
\* results split the receiver's items, each item in exactly one of them.
C20_DifferenceIntersectionPartition ==
  /\ call.op = "difference" =>
       heap[call.ret].games = GamesWithIdNotIn(heap[call.this], heap[call.other])
  /\ call.op = "intersection" =>
       heap[call.ret].games = GamesWithIdIn(heap[call.this], heap[call.other])
  /\ \A a, b \in 1..Len(heap) :
       LET d == Difference(heap, a, b)
           n == Intersection(heap, a, b)
           dGames == d.heap[d.ret].games
           nGames == n.heap[n.ret].games
       IN  /\ Len(dGames) + Len(nGames) = Len(heap[a].games)
           /\ \A i \in 1..Len(heap[a].games) :
                LET g == heap[a].games[i]
                IN  /\ (g \in SeqToSet(nGames)) <=> ContainsAppId(heap[b], g.appId)
                    /\ (g \in SeqToSet(dGames)) <=> ~ContainsAppId(heap[b], g.appId)

\* difference and then intersection were called on the same two
\* collections, and both results hold a game
C20_Witness ==
  /\ ncalls = 2
  /\ call.op = "intersection"
  /\ call.this = 1
  /\ call.other = 2
  /\ Len(heap) = 4
  /\ heap[3].games = GamesWithIdNotIn(heap[1], heap[2])
  /\ Len(heap[3].games) > 0
  /\ Len(heap[4].games) > 0

\* C21 as stated: findByName(name) returns, in collection order, exactly the
\* games whose normalized name (GameName.normalize) equals the normalized
\* form of the name asked for
C21_FindByNameNormalizedMatch ==
  call.op = "findByName" =>
    LET games == heap[call.this].games
        SameNormalized(g) == NormalizedValue(g.name) = NormalizedValue(call.game)
    IN  call.ret = SelectSeq(games, SameNormalized)

\* C21 amended: findByName(name) returns, in collection order, exactly the
\* games whose lower-cased name equals the lower-cased name asked for: the
\* k-th game returned is the k-th such game of the collection
C21_FindByNameCaseInsensitiveMatch ==
  call.op = "findByName" =>
    LET games == heap[call.this].games
        idx == {i \in 1..Len(games) : ToLowerCase(games[i].name) = ToLowerCase(call.game)}
    IN  /\ Len(call.ret) = Cardinality(idx)
        /\ \A k \in 1..Len(call.ret) :
             \E i \in idx : /\ call.ret[k] = games[i]
                            /\ Cardinality({j \in idx : j < i}) = k - 1

\* findByName returned two games, one of them stored in another case than
\* the name asked for
C21_Witness ==
  /\ call.op = "findByName"
  /\ Len(call.ret) = 2
  /\ call.ret[1].name # call.ret[2].name
  /\ call.ret[1].appId # call.ret[2].appId

\* what the repository call p leaves in the file when nobody else's change
\* is merged in: the list p loaded, changed by p's own change only
OwnSnapshot(p) ==
  LET loaded == GetAll(excl[ops[p].collection])
      key == GetKey(ops[p].gameName, ops[p].appId)
      Other(e) == GetKey(e.gameName, e.appId) # key
  IN  IF ops[p].kind = "excludeGame"
        THEN Append(loaded, [gameName |-> Trim(ops[p].gameName), appId |-> ops[p].appId])
        ELSE SelectSeq(loaded, Other)

C26_UnexcludedGameIsNotExcluded ==
  \A p \in 1..Len(ops), q \in 1..Len(ops) :
    ( /\ ops[p].kind = "unexcludeGame"
      /\ ops[p].pc = "returned"
      /\ ops[p].result.success
      /\ ops[q].kind = "isGameExcluded"
      /\ ops[q].pc = "returned"
      /\ ops[q].gameName = ops[p].gameName
      /\ ops[q].appId = ops[p].appId
      /\ ops[q].seen > 0
      /\ saves[ops[q].seen].op = p )
    => ops[q].result = FALSE

\* C27: an excludeGame that wrote with no write of another call between its
\* load and its write only adds: every entry the file held before is in the
\* file it wrote, and so is the new entry; an excludeGame that reports
\* failure wrote nothing
C27_ExcludeGameOnlyAdds ==
  /\ \A k \in 1..Len(saves) :
       LET p == saves[k].op
           before == IF k = 1 THEN <<>> ELSE saves[k - 1].file
           after == saves[k].file
       IN  (ops[p].kind = "excludeGame" /\ ops[p].seen = k - 1) =>
             /\ \A i \in 1..Len(before) : before[i] \in SeqToSet(after)
             /\ [gameName |-> Trim(ops[p].gameName), appId |-> ops[p].appId]
                  \in SeqToSet(after)
  /\ \A p \in 1..Len(ops) :
       ( /\ ops[p].kind = "excludeGame"
         /\ ops[p].pc = "returned"
         /\ ~ops[p].result.success )
       => \A k \in 1..Len(saves) : saves[k].op # p

\* C28: after ExcludedGameCollection.remove(name, appId), as unexcludeGame
\* calls it, isExcluded(name, appId) is false on the returned collection,
\* and when no entry has the key the returned collection is the same
\* instance
C28_RemovedGameIsNotExcluded ==
  \A p \in 1..Len(ops) :
    (ops[p].kind = "unexcludeGame" /\ ops[p].updated # 0) =>
      /\ ~IsExcluded(excl[ops[p].updated], ops[p].gameName, ops[p].appId)
      /\ ~MapHas(excl[ops[p].collection], GetKey(ops[p].gameName, ops[p].appId))
           => ops[p].updated = ops[p].collection

\* C23 as stated: after execute, no game of onlyInSecond is similar, at the
\* threshold of the call, to a game of the first collection as filtered by
\* the exclusions
C23_OnlyInSecondMatchesNoFirstGame ==
  Returned =>
    LET r == ucOut.result
        f == r.filteredFirst.games
        missing == r.comparison.onlyInSecond
    IN  \A k \in 1..Len(missing), i \in 1..Len(f) :
          ~NamesSimilar(f[i].name, missing[k].name, CallThreshold)

\* C23 amended: after execute, no game of onlyInSecond has the normalized
\* name of a matched second-side game, the first second-side game in order
\* that is similar to some filtered first-side game; a game of onlyInSecond
\* similar to a first-side game has another normalized name than the game
\* that first-side game matched
C23_OnlyInSecondHasNoMatchedName ==
  Returned =>
    LET r == ucOut.result
        f == r.filteredFirst.games
        g == r.filteredSecond.games
        missing == r.comparison.onlyInSecond
    IN  \A k \in 1..Len(missing), i \in 1..Len(f) :
          LET j == FirstSimilar(f[i], g, CallThreshold)
          IN  /\ j # 0 => NormalizedValue(missing[k].name) # NormalizedValue(g[j].name)
              /\ NamesSimilar(f[i].name, missing[k].name, CallThreshold) => j # 0

\* a first-side game matched the first of two second-side games similar to
\* it, and the other one is reported as only in second
C23_Witness ==
  /\ Returned
  /\ Len(ucOut.result.comparison.inBoth) = 1
  /\ Len(ucOut.result.comparison.onlyInSecond) = 1
  /\ Len(ucOut.result.filteredFirst.games) = 1
  /\ NamesSimilar(ucOut.result.filteredFirst.games[1].name,
                  ucOut.result.comparison.onlyInSecond[1].name, CallThreshold)

\* C24: after execute, no game of onlyInFirst is similar, at the threshold
\* of the call, to a game of the filtered second collection, and the name of
\* a filtered first-side game is in onlyInFirst exactly when no second-side
\* game is similar to it
C24_OnlyInFirstIffNoSecondGameSimilar ==
  Returned =>
    LET r == ucOut.result
        f == r.filteredFirst.games
        g == r.filteredSecond.games
        alone == r.comparison.onlyInFirst
    IN  /\ \A k \in 1..Len(alone), j \in 1..Len(g) :
             ~NamesSimilar(alone[k].name, g[j].name, CallThreshold)
        /\ \A i \in 1..Len(f) :
             NormalizedValue(f[i].name) \in NamesOf(alone)
               <=> \A j \in 1..Len(g) : ~NamesSimilar(f[i].name, g[j].name, CallThreshold)

\* one first-side game is matched and another is not, with a second-side
\* game that no first-side game matched
C24_Witness ==
  /\ Returned
  /\ Len(ucOut.result.comparison.inBoth) = 1
  /\ Len(ucOut.result.comparison.onlyInFirst) = 1
  /\ Len(ucOut.result.filteredSecond.games) = 1
  /\ Len(first.games) = 2

\* C25: after execute, the normalized name of every game of the filtered
\* first collection is the name of a game of inBoth or of onlyInFirst
C25_NoFirstGameLost ==
  Returned =>
    LET r == ucOut.result
        f == r.filteredFirst.games
    IN  \A i \in 1..Len(f) :
          NormalizedValue(f[i].name)
            \in NamesOf(r.comparison.inBoth) \cup NamesOf(r.comparison.onlyInFirst)

\* the duplicate removal dropped a first-side game: two unmatched first-side
\* games of different appIds have the same normalized name
C25_Witness ==
  /\ Returned
  /\ Len(ucOut.result.filteredFirst.games) = 2
  /\ ucOut.result.matchIndex = <<0, 0>>
  /\ Len(ucOut.result.comparison.onlyInFirst) = 1
  /\ ucOut.result.filteredFirst.games[1].appId # ucOut.result.filteredFirst.games[2].appId

\* C29: WishlistComparison.removeDuplicates leaves a comparison unchanged
\* when none of its lists holds two games of the same normalized name: the
\* lists and totalUniqueGames are those of the original
C29_DeduplicateKeepsComparisonWithoutDuplicates ==
  ( /\ ucPc = "deduplicated"
    /\ DistinctNames(DirectComparison.inBoth)
    /\ DistinctNames(DirectComparison.onlyInFirst)
    /\ DistinctNames(DirectComparison.onlyInSecond) )
  => /\ ucOut.deduplicated.inBoth = DirectComparison.inBoth
     /\ ucOut.deduplicated.onlyInFirst = DirectComparison.onlyInFirst
     /\ ucOut.deduplicated.onlyInSecond = DirectComparison.onlyInSecond
     /\ TotalUniqueGames(ucOut.deduplicated) = TotalUniqueGames(DirectComparison)

\* C30: similarity is monotone in the threshold: a pair that isSimilarTo
\* finds similar at a threshold is similar at every larger threshold, and a
\* pair it finds not similar is not similar at any smaller one.
C30_SimilarityMonotoneInThreshold ==
  namePc = "compared" =>
    \A t \in Thresholds :
      /\ (thr <= t /\ nameOut.simAB) => NamesSimilar(rawA, rawB, t)
      /\ (t <= thr /\ NamesSimilar(rawA, rawB, t)) => nameOut.simAB

\* two names of different normalized forms were found similar at the
\* default threshold, and are not similar at the strictest threshold
C30_Witness ==
  /\ namePc = "compared"
  /\ thr = DefaultThreshold
  /\ nameOut.normA # nameOut.normB
  /\ nameOut.simAB
  /\ ~NamesSimilar(rawA, rawB, 0)
  /\ \E t \in Thresholds : t > thr /\ NamesSimilar(rawA, rawB, t)

====
